---------------------------- MODULE Spec2Model ----------------------------
(***************************************************************************)
(* AutoCircuit chatbot: query normalisation (utils.normalize_query), the   *)
(* retrieval engine (utils.search_topk) and the narrowing dialogue of the  *)
(* Streamlit session (app.py).                                             *)
(*                                                                         *)
(* Strings are sequences of characters.  A character is a one-symbol TLA+  *)
(* string; a CJK character is written as "Z" followed by its pinyin        *)
(* ("Zbao" is U+4FDD), a full-width symbol as "FW..." ("FWyen" is U+FFE5). *)
(*                                                                         *)
(* Floating point scores are fixed point, in thousandths (1.0 is 1000).    *)
(***************************************************************************)
EXTENDS Integers, Sequences, FiniteSets, TLC

VARIABLES
  norm,        \* normalisation run: [q, once, twice, pc]
  engine,      \* one call of search_topk: its arguments, its result, pc
  df,          \* the corpus loaded by get_data(): an index into Corpora
  fuzz,        \* fuzzywuzzy's similarities for the query being scored
  llm,         \* the intent service's answer to the last call
  use_llm,     \* sidebar toggle
  state,       \* st.session_state.state
  messages,    \* st.session_state.messages
  choices      \* option clicks since the last query (observation only)

vars == <<norm, engine, df, fuzz, llm, use_llm, state, messages, choices>>

----------------------------------------------------------------------------
(* Characters                                                              *)

UpperLetters ==
  <<"A","B","C","D","E","F","G","H","I","J","K","L","M",
    "N","O","P","Q","R","S","T","U","V","W","X","Y","Z">>

LowerLetters ==
  <<"a","b","c","d","e","f","g","h","i","j","k","l","m",
    "n","o","p","q","r","s","t","u","v","w","x","y","z">>

Letters == 1..26

UpperSet == {UpperLetters[i] : i \in Letters}
LowerSet == {LowerLetters[i] : i \in Letters}
Digits == {"0","1","2","3","4","5","6","7","8","9"}

\* [A-Za-z0-9]
Alnum == UpperSet \cup LowerSet \cup Digits

\* [\u4e00-\u9fff], the characters of that range the model uses
CJK ==
  {"Zbao","Zxian3","Zsi","Zrong","Zduan4","Zqi","Zjie1","Zxian4","Zhe_box",
   "Zxiang","Zzhen","Zjiao","Zding","Zyi4","Zduan1","Zzi","Zcha","Ztou",
   "Zdian","Znao","Zban","Zkong","Zzhi","Zfa","Zdong4","Zji","Zyi2","Zbiao",
   "Zzu","Zhe_join","Zpan","Zzhu","Zyou","Zwa","Zjue",
   "Zdong1","Zfeng","Ztian","Zlong","Zhong","Zyan","Zjie2","Zshi","Zhao",
   "Zwo","Ztu","Zlu"}

\* the class [@#￥$%^&*()（）\[\]{}<>【】|\\/] of normalize_query
Punct ==
  {"@","#","FWyen","$","%","^","&","*","(",")","FWlparen","FWrparen",
   "[","]","{","}","<",">","FWlbracket","FWrbracket","|","\\","/"}

\* \s
Space == {" "}

\* \w of a Python 3 str pattern: letters of any script, digits, underscore
Word == Alnum \cup CJK \cup {"_"}

ToLower == [c \in UpperSet |-> LowerLetters[CHOOSE i \in Letters : UpperLetters[i] = c]]
ToUpper == [c \in LowerSet |-> UpperLetters[CHOOSE i \in Letters : LowerLetters[i] = c]]

lower_char(c) == IF c \in UpperSet THEN ToLower[c] ELSE c
upper_char(c) == IF c \in LowerSet THEN ToUpper[c] ELSE c

----------------------------------------------------------------------------
(* str methods                                                             *)

\* f itself, as a function whose values are computed once
table(f) == f @@ <<>>

\* str.lower()
lower(s) == table([i \in 1..Len(s) |-> lower_char(s[i])])

\* str.upper()
upper(s) == table([i \in 1..Len(s) |-> upper_char(s[i])])

\* t in s
contains(s, t) ==
  \E i \in 0..(Len(s) - Len(t)) : \A j \in 1..Len(t) : s[i + j] = t[j]

RECURSIVE lstrip(_)
lstrip(s) == IF s # <<>> /\ Head(s) \in Space THEN lstrip(Tail(s)) ELSE s

RECURSIVE rstrip(_)
rstrip(s) ==
  IF s # <<>> /\ s[Len(s)] \in Space THEN rstrip(SubSeq(s, 1, Len(s) - 1)) ELSE s

\* str.strip()
strip(s) == rstrip(lstrip(s))

\* " ".join(parts)
RECURSIVE join(_)
join(parts) ==
  IF parts = <<>> THEN <<>>
  ELSE IF Len(parts) = 1 THEN parts[1]
  ELSE parts[1] \o <<" ">> \o join(Tail(parts))

\* "".join(parts)
RECURSIVE concat(_)
concat(parts) == IF parts = <<>> THEN <<>> ELSE parts[1] \o concat(Tail(parts))

\* str.split(): the maximal runs of non-whitespace
RECURSIVE split_from(_, _)
split_from(s, cur) ==
  IF s = <<>> THEN (IF cur = <<>> THEN <<>> ELSE <<cur>>)
  ELSE IF Head(s) \in Space
       THEN (IF cur = <<>> THEN <<>> ELSE <<cur>>) \o split_from(Tail(s), <<>>)
       ELSE split_from(Tail(s), Append(cur, Head(s)))

split(s) == split_from(s, <<>>)

----------------------------------------------------------------------------
(* utils.SYNONYMS, in the dictionary's order                               *)

SYNONYMS ==
  <<
    [k |-> <<"Zbao", "Zxian3", "Zsi">>,
     vals |-> << <<"Zrong", "Zduan4", "Zqi">>,
                 <<"f", "u", "s", "e">> >>],
    [k |-> <<"Zjie1", "Zxian4", "Zhe_box">>,
     vals |-> << <<"Zjie1", "Zxian4", "Zxiang">>,
                 <<"j", "u", "n", "c", "t", "i", "o", "n">>,
                 <<"j", "/", "b">>,
                 <<"j", "b">> >>],
    [k |-> <<"Zzhen", "Zjiao">>,
     vals |-> << <<"p", "i", "n">>,
                 <<"Zzhen", "Zjiao", "Zding", "Zyi4">>,
                 <<"Zduan1", "Zzi">>,
                 <<"Zcha", "Ztou">>,
                 <<"Zjie1", "Ztou">> >>],
    [k |-> <<"e", "c", "u">>,
     vals |-> << <<"E", "C", "U">>,
                 <<"Zdian", "Znao", "Zban">>,
                 <<"Zkong", "Zzhi", "Zqi">>,
                 <<"Zdian", "Zkong">>,
                 <<"Zfa", "Zdong4", "Zji", "Zdian", "Znao">> >>],
    [k |-> <<"Zyi2", "Zbiao">>,
     vals |-> << <<"Zzu", "Zhe_join", "Zyi2", "Zbiao">>,
                 <<"Zyi2", "Zbiao", "Zpan">>,
                 <<"m", "e", "t", "e", "r">> >>],
    [k |-> <<"Zzhu", "Zyou">>,
     vals |-> << <<"s", "u", "m", "i", "t", "o", "m", "o">>,
                 <<"S", "U", "M", "I", "T", "O", "M", "O">>,
                 <<"Zzhu", "Zyou", "Zwa", "Zji">>,
                 <<"Zzhu", "Zyou", "Zwa", "Zjue", "Zji">> >>]
  >>

----------------------------------------------------------------------------
(* Query normalisation                                                     *)

\* the synonym groups hit by q, each contributing its key then its values
RECURSIVE synonym_extra(_, _)
synonym_extra(q_lower, groups) ==
  IF groups = <<>> THEN <<>>
  ELSE LET g == Head(groups)
           hit == \/ contains(q_lower, lower(g.k))
                  \/ \E i \in 1..Len(g.vals) : contains(q_lower, lower(g.vals[i]))
       IN (IF hit THEN <<g.k>> \o g.vals ELSE <<>>)
          \o synonym_extra(q_lower, Tail(groups))

_expand_synonyms(q) ==
  LET extra == synonym_extra(lower(q), SYNONYMS)
  IN strip(q \o <<" ">> \o join(extra))

\* re.sub(r"\becu\b", "ECU", q, flags=re.IGNORECASE)
ecu_at(q, i) ==
  /\ i >= 1
  /\ i + 2 <= Len(q)
  /\ lower(SubSeq(q, i, i + 2)) = <<"e", "c", "u">>
  /\ (i = 1 \/ q[i - 1] \notin Word)
  /\ (i + 2 = Len(q) \/ q[i + 3] \notin Word)

sub_ecu(q) ==
  table([j \in 1..Len(q) |->
           IF \E i \in {j - 2, j - 1, j} : ecu_at(q, i) THEN upper_char(q[j]) ELSE q[j]])

\* re.sub(r"([A-Za-z0-9]+)([\u4e00-\u9fff])", r"\1 \2", q)
RECURSIVE split_latin_cjk(_)
split_latin_cjk(q) ==
  IF Len(q) < 2 THEN q
  ELSE IF q[1] \in Alnum /\ q[2] \in CJK
       THEN <<q[1], " ">> \o split_latin_cjk(Tail(q))
       ELSE <<q[1]>> \o split_latin_cjk(Tail(q))

\* re.sub(r"([\u4e00-\u9fff])([A-Za-z0-9]+)", r"\1 \2", q)
RECURSIVE split_cjk_latin(_)
split_cjk_latin(q) ==
  IF Len(q) < 2 THEN q
  ELSE IF q[1] \in CJK /\ q[2] \in Alnum
       THEN <<q[1], " ">> \o split_cjk_latin(Tail(q))
       ELSE <<q[1]>> \o split_cjk_latin(Tail(q))

\* re.sub(cls + "+", " ", q): every maximal run of cls becomes one space
RECURSIVE sub_runs(_, _)
sub_runs(q, cls) ==
  IF q = <<>> THEN <<>>
  ELSE IF Head(q) \in cls
       THEN IF Len(q) >= 2 /\ q[2] \in cls
            THEN sub_runs(Tail(q), cls)
            ELSE <<" ">> \o sub_runs(Tail(q), cls)
       ELSE <<Head(q)>> \o sub_runs(Tail(q), cls)

normalize_query(q) ==
  LET q1 == strip(q)
      q2 == sub_ecu(q1)
      q3 == split_latin_cjk(q2)
      q4 == split_cjk_latin(q3)
      q5 == sub_runs(q4, Punct)
      q6 == strip(sub_runs(q5, Space))
  IN _expand_synonyms(q6)

----------------------------------------------------------------------------
(* Normalisation runs: normalize_query applied to a query, then to its own *)
(* output.                                                                 *)

MaxQueryLen == 3

NormAlphabet == {"j", "b", "E", "c", "u", " ", "@", "Zzhen", "Zjiao"}

NormQueries ==
  UNION {[1..n -> NormAlphabet] : n \in 0..MaxQueryLen}

NormIdle == [q |-> <<>>, once |-> <<>>, twice |-> <<>>, pc |-> "idle"]

\* An Optional value is a sequence of at most one element; None is <<>>.
None == <<>>

\* st.session_state.state at the start of a session and after a reset;
\* results is an Optional frame, None before the first query
InitialState ==
  [active_query |-> <<>>, filters |-> <<>>, results |-> None, step |-> "INIT",
   options |-> <<>>, debug |-> <<>>]

\* the values of the variables a specification does not use
EngineIdle == [pc |-> "idle"]
NoOracle == [t |-> <<>>, p |-> <<>>]
NoReply == [kind |-> "none", data |-> <<>>]

NormInit ==
  /\ norm \in {[q |-> q, once |-> <<>>, twice |-> <<>>, pc |-> "start"] : q \in NormQueries}
  /\ engine = EngineIdle
  /\ df = 1
  /\ fuzz = NoOracle
  /\ llm = NoReply
  /\ use_llm = TRUE
  /\ state = InitialState
  /\ messages = <<>>
  /\ choices = 0

\* query_n = normalize_query(query)
Normalize ==
  /\ norm.pc = "start"
  /\ norm' = [norm EXCEPT !.once = normalize_query(norm.q), !.pc = "once"]
  /\ UNCHANGED <<engine, df, fuzz, llm, use_llm, state, messages, choices>>

\* the normal form goes through normalize_query again
Renormalize ==
  /\ norm.pc = "once"
  /\ norm' = [norm EXCEPT !.twice = normalize_query(norm.once), !.pc = "twice"]
  /\ UNCHANGED <<engine, df, fuzz, llm, use_llm, state, messages, choices>>

NormNext == Normalize \/ Renormalize

SpecNorm == NormInit /\ [][NormNext]_vars

\* the synonym groups a string hits
hits_synonym(q) == synonym_extra(lower(q), SYNONYMS) # <<>>

\* C6: normalising a normal form changes nothing: normalize(normalize(q))
\* equals normalize(q) for every query q, also when q names a synonym-table
\* term (the expansion is not appended a second time).
C6_Idempotent == norm.pc = "twice" => norm.twice = norm.once

\* a query without any synonym-table term is left alone by the second pass
NormIdempotentWithoutSynonyms ==
  (norm.pc = "twice" /\ ~hits_synonym(norm.q)) => norm.twice = norm.once

----------------------------------------------------------------------------
(* The catalogue.  A corpus is the frame load_data returns: rows of ID,    *)
(* title and path, in file order.                                          *)

Corpora ==
  <<
    \* 1: an empty catalogue
    <<>>,
    \* 2: two rows with the same title and path
    << [ID |-> 1, title |-> <<"K", "L">>, path |-> <<"A">>],
       [ID |-> 2, title |-> <<"K", "L">>, path |-> <<"A">>],
       [ID |-> 3, title |-> <<"j", "b">>, path |-> <<"A">>] >>,
    \* 3: a row with the Sumitomo / 4HK1 pair
    << [ID |-> 1, title |-> <<"K", "L", " ", "E", "C", "U">>, path |-> <<"A">>],
       [ID |-> 2, title |-> <<"K", "C">>, path |-> <<"A">>],
       [ID |-> 3, title |-> <<"Zzhu", "Zyou", "4", "H", "K", "1">>, path |-> <<"A">>] >>,
    \* 4: the session's catalogue: two series, two types
    << [ID |-> 1, title |-> <<"K", "L", " ", "E", "C", "U">>, path |-> <<"A">>],
       [ID |-> 2, title |-> <<"K", "L", " ", "E", "C", "U">>, path |-> <<"B">>],
       [ID |-> 3, title |-> <<"K", "L", " ", "E", "C", "U">>, path |-> <<"C">>],
       [ID |-> 4, title |-> <<"K", "L", " ", "E", "C", "U", " ", "j", "b">>, path |-> <<"A">>],
       [ID |-> 5, title |-> <<"K", "L", " ", "E", "C", "U", " ", "j", "b">>, path |-> <<"C">>],
       [ID |-> 6, title |-> <<"K", "L", " ", "E", "C", "U", " ", "j", "b">>, path |-> <<"D">>],
       [ID |-> 7, title |-> <<"K", "C", " ", "E", "C", "U", " ", "j", "b">>, path |-> <<"A">>],
       [ID |-> 8, title |-> <<"K", "C", " ", "j", "b">>, path |-> <<"B">>] >>
  >>

\* df["_search_blob"] = title + " " + path
search_blob(row) == row.title \o <<" ">> \o row.path

RowIds(c) == 1..Len(Corpora[c])

\* blob_lower = df["_search_blob"].astype(str).str.lower()
BlobLower ==
  table([c \in 1..Len(Corpora) |->
           table([i \in 1..Len(Corpora[c]) |-> lower(search_blob(Corpora[c][i]))])])

blob_lower(c, i) == BlobLower[c][i]

Titles(c) == {Corpora[c][i].title : i \in RowIds(c)}
Paths(c) == {Corpora[c][i].path : i \in RowIds(c)}

----------------------------------------------------------------------------
(* Arithmetic                                                              *)

Min(a, b) == IF a <= b THEN a ELSE b

\* 1000 * ln(n), n = 1..12, rounded; ln of a product is the sum of the lns
LnTable ==
  <<0, 693, 1099, 1386, 1609, 1792, 1946, 2079, 2198, 2302, 2398, 2485>>

\* 1000 * math.log(a / b)
log_ratio(a, b) == LnTable[a] - LnTable[b]

RECURSIVE sum_over(_, _)
sum_over(S, f) ==
  IF S = {} THEN 0
  ELSE LET x == CHOOSE y \in S : TRUE IN f[x] + sum_over(S \ {x}, f)

Range(s) == {s[i] : i \in 1..Len(s)}

\* s[mask]: the elements of s that satisfy keep, in their order
RECURSIVE select(_, _)
select(s, keep) ==
  IF s = <<>> THEN <<>>
  ELSE (IF keep[Head(s)] THEN <<Head(s)>> ELSE <<>>) \o select(Tail(s), keep)

\* frame.head(n)
head(s, n) == SubSeq(s, 1, Min(n, Len(s)))

----------------------------------------------------------------------------
(* DataFrame.sort_values(col, ascending=False).  The default kind is       *)
(* "quicksort", which pandas documents as not stable: rows with equal keys *)
(* come out in any order.  sort_values is the set of the orders it can     *)
(* return for the rows S with the keys key.                                *)

RECURSIVE sort_values(_, _)
sort_values(S, key) ==
  IF S = {} THEN {<<>>}
  ELSE LET top == {x \in S : \A y \in S : key[x] >= key[y]}
       IN UNION {{<<x>> \o rest : rest \in sort_values(S \ {x}, key)} : x \in top}

\* The sets of rows sort_values(...).head(n) can keep: the rows of the
\* whole groups of equal keys that fit, and any choice among the group that
\* is cut.
RECURSIVE head_rows(_, _, _)
head_rows(S, key, n) ==
  IF n >= Cardinality(S) THEN {S}
  ELSE LET top == {x \in S : \A y \in S : key[x] >= key[y]}
       IN IF Cardinality(top) <= n
          THEN {top \cup rest : rest \in head_rows(S \ top, key, n - Cardinality(top))}
          ELSE {T \in SUBSET top : Cardinality(T) = n}

----------------------------------------------------------------------------
(* fuzzywuzzy.  token_set_ratio, partial_ratio and WRatio are library      *)
(* functions of the two strings, with values in 0..100; the model takes the *)
(* maximum of the three for a title or a path of the corpus from f, the     *)
(* library's answers for the query at hand.                                 *)

\* 1000 * (0.7 * s_title + 0.3 * s_path)
score_row(f, title, path) == 700 * f.t[title] + 300 * f.p[path]

----------------------------------------------------------------------------
(* utils.parse_intent_llm.  reply is what the call to the service comes to: *)
(*   "no_key"     the environment variable is not set                       *)
(*   "exception"  the client raises (timeout, authentication, network) or   *)
(*                json.loads rejects the text                               *)
(*   "non_dict"   the text is JSON but no object                            *)
(*   "dict"       the text is a JSON object, reply.data                     *)

parse_intent_llm(reply) ==
  IF reply.kind = "dict" THEN <<reply.data>> ELSE None

\* dict.get(key, default)
dict_get(d, key, default) == IF key \in DOMAIN d THEN d[key] ELSE default

\* bool(intent) for an Optional[dict]: not None and not empty
truthy_intent(intent) == intent # None /\ DOMAIN intent[1] # {}

\* the terms of a list that occur in blob, one per occurrence in the list
term_hits(terms, blob) ==
  Cardinality({j \in 1..Len(terms) : contains(blob, lower(terms[j]))})

\* intent_bonus(row), in thousandths
intent_bonus(intent, row) ==
  LET blob == lower(row.title \o <<" ">> \o row.path)
  IN 30000 * term_hits(dict_get(intent, "brand", <<>>), blob)
     + 40000 * term_hits(dict_get(intent, "model", <<>>), blob)
     + 20000 * term_hits(dict_get(intent, "part", <<>>), blob)

----------------------------------------------------------------------------
(* utils.search_topk                                                       *)

\* dict keys: the first occurrence of each token, in order
RECURSIVE dedupe(_, _)
dedupe(s, seen) ==
  IF s = <<>> THEN <<>>
  ELSE IF Head(s) \in seen THEN dedupe(Tail(s), seen)
       ELSE <<Head(s)>> \o dedupe(Tail(s), seen \cup {Head(s)})

\* tokens_lower, as the keys of token_idf
query_tokens(query_n) ==
  LET toks == split(query_n)
      long == select(toks, [t \in Range(toks) |-> Len(t) > 1])
  IN dedupe([i \in 1..Len(long) |-> lower(long[i])], {})

\* the Sumitomo / 4HK1 pair
cooccurrence(blob_l) ==
  /\ \/ contains(blob_l, <<"Zzhu", "Zyou">>)
     \/ contains(blob_l, <<"s", "u", "m", "i", "t", "o", "m", "o">>)
  /\ contains(blob_l, <<"4", "h", "k", "1">>)

\* a variant without the fall back to the whole corpus: candidates = df[mask]
candidate_rows_mask_only(rows, mask) == mask

\* candidates = df[mask] if mask is not None and mask.any() else df
candidate_rows(rows, mask) == IF mask # {} THEN mask ELSE rows

\* filtered = ranked[score >= min_score]; kept unless it is empty
apply_min_score(ranked, score, min_score) ==
  IF min_score > 0
  THEN LET filtered == select(ranked, [i \in Range(ranked) |-> score[i] >= min_score])
       IN IF filtered # <<>> THEN filtered ELSE ranked
  ELSE ranked

\* The frames search_topk can return: sequences of [idx, score], idx the
\* row of the corpus whose ID, title and path the result row carries.
search_topk(c, query, k, candidate_pool, min_score, use_llm_intent, reply, f) ==
  LET query_n == normalize_query(query)
  IN IF query_n = <<>> THEN {<<>>}
     ELSE
       LET toks == query_tokens(query_n)
           rows == RowIds(c)
           N == Len(Corpora[c])
           present == table([i \in rows |->
                         {j \in 1..Len(toks) : contains(blob_lower(c, i), toks[j])}])
           token_idf == table([j \in 1..Len(toks) |->
                           log_ratio(N + 1, Cardinality({i \in rows : j \in present[i]}) + 1)
                           + 1000])
           mask == {i \in rows : present[i] # {}}
           candidates == candidate_rows(rows, mask)
           whit == table([i \in rows |-> sum_over(present[i], token_idf)])
           base == table([i \in rows |->
                      score_row(f, Corpora[c][i].title, Corpora[c][i].path)])
           score == table([i \in rows |->
                       base[i] + 22 * whit[i] + 12000 * Cardinality(present[i])
                       + (IF cooccurrence(blob_lower(c, i)) THEN 80000 ELSE 0)])
           intent == IF use_llm_intent THEN parse_intent_llm(reply) ELSE None
           boosted == use_llm_intent /\ truthy_intent(intent)
           final == table([i \in rows |->
                       IF boosted THEN score[i] + intent_bonus(intent[1], Corpora[c][i])
                       ELSE score[i]])
           pools == head_rows(candidates, whit, candidate_pool)
           ranked1 == UNION {sort_values(pool, score) : pool \in pools}
           ranked2 == IF boosted
                      THEN UNION {sort_values(Range(r), final) : r \in ranked1}
                      ELSE ranked1
       IN {LET kept == head(apply_min_score(r, final, min_score), k)
           IN [n \in 1..Len(kept) |-> [idx |-> kept[n], score |-> final[kept[n]]]]
           : r \in ranked2}

----------------------------------------------------------------------------
(* Calls of search_topk: the arguments are drawn, the call returns.        *)

MaxK == 2
MaxPool == 2

SimLevels == {0, 100}

\* the answers the fuzzy scorer can give for the titles and paths of corpus c
Oracles(c) ==
  {[t |-> ft, p |-> fp] : ft \in [Titles(c) -> SimLevels], fp \in [Paths(c) -> SimLevels]}

EngineCorpora == {1, 2, 3}

EngineQueries ==
  { <<"K", "L">>,
    <<"k", "c", " ", "j", "b">>,
    <<"x", "y">>,
    <<" ">>,
    <<"4", "h", "k", "1">> }

\* min_score, in thousandths: off, between the scores, above every score
MinScores == {0, 60000, 900000}

EngineReplies ==
  { [kind |-> "no_key", data |-> <<>>],
    [kind |-> "exception", data |-> <<>>],
    [kind |-> "non_dict", data |-> <<>>],
    [kind |-> "dict", data |-> <<>>],
    [kind |-> "dict",
     data |-> [brand |-> << <<"K", "C">> >>, series |-> <<>>, model |-> <<>>,
               part |-> << <<"j", "b">> >>, confidence |-> 1]] }

EngineInit ==
  /\ df \in EngineCorpora
  /\ fuzz \in Oracles(df)
  /\ engine \in {[query |-> q, k |-> k, candidate_pool |-> p, min_score |-> m,
                  use_llm_intent |-> u, result |-> <<>>, pc |-> "call"] :
                 q \in EngineQueries, k \in 1..MaxK, p \in 1..MaxPool,
                 m \in MinScores, u \in BOOLEAN}
  \* the service is called only with use_llm_intent
  /\ llm \in IF engine.use_llm_intent THEN EngineReplies ELSE {NoReply}
  /\ norm = NormIdle
  /\ use_llm = TRUE
  /\ state = InitialState
  /\ messages = <<>>
  /\ choices = 0

SearchTopk ==
  /\ engine.pc = "call"
  /\ \E r \in search_topk(df, engine.query, engine.k, engine.candidate_pool,
                          engine.min_score, engine.use_llm_intent, llm, fuzz) :
       engine' = [engine EXCEPT !.result = r, !.pc = "done"]
  /\ UNCHANGED <<norm, df, fuzz, llm, use_llm, state, messages, choices>>

EngineNext == SearchTopk

SpecSearch == EngineInit /\ [][EngineNext]_vars

----------------------------------------------------------------------------
(* Helpers app.py imports from utils: get_expanded_keywords,               *)
(* check_text_matches_any, detect_options, llm_parse_query and the keyword *)
(* lists.                                                                  *)

\* the known series and type keywords, in list order
ALL_SERIES_KEYWORDS == << <<"K", "L">>, <<"K", "C">> >>
ALL_TYPE_KEYWORDS == << <<"E", "C", "U">>, <<"j", "b">> >>

\* the term itself, and every member of each synonym group the term is the
\* key or a value of, compared without case
get_expanded_keywords(term) ==
  {term} \cup
  UNION {{SYNONYMS[g].k} \cup Range(SYNONYMS[g].vals) :
         g \in {h \in 1..Len(SYNONYMS) :
                  \/ lower(SYNONYMS[h].k) = lower(term)
                  \/ \E v \in Range(SYNONYMS[h].vals) : lower(v) = lower(term)}}

\* a lower-cased text holds one of the keywords, without case
matches_any(text_l, keywords) ==
  \E kw \in keywords : contains(text_l, lower(kw))

\* text holds one of the keywords as a substring, without case
check_text_matches_any(text, keywords) == matches_any(lower(text), keywords)

\* the lower-cased blob of a row of a result frame: that of the document
\* the row carries
result_blob(c, row) == blob_lower(c, row.idx)

\* the keywords that occur, without case, in a blob of the first 100 rows
detect_options(c, current_df, keywords) ==
  select(keywords,
         table([kw \in Range(keywords) |->
                  \E n \in 1..Min(100, Len(current_df)) :
                    matches_any(result_blob(c, current_df[n]), {kw})]))

\* the intent for the app: brand, series and part as single values; the
\* empty dict when the extractor has no hint
llm_parse_query(reply) ==
  LET hint == parse_intent_llm(reply)
  IN IF hint = None THEN <<>> ELSE hint[1]

----------------------------------------------------------------------------
(* app.py: the session                                                     *)

\* the frame held in state["results"]
frame(s) == s.results[1]

\* res[res["_search_blob"].apply(lambda x: check_text_matches_any(str(x), synonyms))]
apply_filter(c, res, f) ==
  LET synonyms == {lower(kw) : kw \in get_expanded_keywords(f)}
  IN select(res, table([row \in Range(res) |->
                          matches_any(result_blob(c, row), synonyms)]))

RECURSIVE apply_filters_smart(_, _, _)
apply_filters_smart(c, base_df, filters) ==
  IF filters = <<>> THEN base_df
  ELSE apply_filters_smart(c, apply_filter(c, base_df, Head(filters)), Tail(filters))

\* append_msg.  The text of a message is presentation and is left out; of
\* data, the documents of a result card, the message keeps how many there
\* are: they are the first rows of state["results"] when the card is made.
append_msg(msgs, role, msg_type, data) ==
  Append(msgs, [role |-> role, type |-> msg_type, shown |-> Len(data)])

\* for k in ["brand", "series", "part"]: the values kept as filters
extract_filters(intent) ==
  LET keys == <<"brand", "series", "part">>
      val == [k \in Range(keys) |-> dict_get(intent, k, None)]
  IN [n \in 1..3 |-> val[keys[n]]]

\* a variant that keeps every value of the three keys
keep_filter_always(val) == TRUE

\* if val and val.lower() != "null"
keep_filter(val) == val # <<>> /\ lower(val) # <<"n", "u", "l", "l">>

intent_filters(intent) ==
  LET vals == extract_filters(intent)
  IN select(vals, [v \in Range(vals) |-> keep_filter(v)])

\* a variant whose second strategy drops the first filter, not the last
strategies_drop_first(filters) ==
  << filters,
     IF Len(filters) > 1 THEN SubSeq(filters, 2, Len(filters)) ELSE <<>>,
     IF Len(filters) > 0 THEN <<filters[1]>> ELSE <<>> >>

\* strategies = [filters, filters[:-1] if len(filters) > 1 else [],
\*               [filters[0]] if len(filters) > 0 else []]
strategies(filters) ==
  << filters,
     IF Len(filters) > 1 THEN SubSeq(filters, 1, Len(filters) - 1) ELSE <<>>,
     IF Len(filters) > 0 THEN <<filters[1]>> ELSE <<>> >>

\* the loop over the strategies, then the fall back to raw_res
RECURSIVE greedy_match(_, _, _)
greedy_match(c, raw_res, strats) ==
  IF strats = <<>> THEN [final_df |-> raw_res, used_filters |-> <<>>]
  ELSE LET flt == Head(strats)
           temp_df == apply_filters_smart(c, raw_res, flt)
       IN IF flt # <<>> /\ temp_df # <<>>
          THEN [final_df |-> temp_df, used_filters |-> flt]
          ELSE greedy_match(c, raw_res, Tail(strats))

finalize_results(s, msgs) ==
  LET final_df == frame(s)
      top == head(final_df, 5)
      top_docs == [n \in 1..Len(top) |-> Corpora[df][top[n].idx].ID]
  IN [state |-> [s EXCEPT !.step = "IDLE"],
      messages |-> append_msg(msgs, "assistant", "result_card", top_docs)]

\* a variant that stops on fewer than 5 rows only: count < 5 or (...)
stop_condition_under_five(count, filters) ==
  LET has_series == \E n \in 1..Len(filters) :
                      check_text_matches_any(filters[n], Range(ALL_SERIES_KEYWORDS))
      has_type == \E n \in 1..Len(filters) :
                    check_text_matches_any(filters[n], Range(ALL_TYPE_KEYWORDS))
  IN count < 5 \/ (has_series /\ has_type)

\* count <= 5 or (has_series and has_type)
stop_condition(count, filters) ==
  LET has_series == \E n \in 1..Len(filters) :
                      check_text_matches_any(filters[n], Range(ALL_SERIES_KEYWORDS))
      has_type == \E n \in 1..Len(filters) :
                    check_text_matches_any(filters[n], Range(ALL_TYPE_KEYWORDS))
  IN count <= 5 \/ (has_series /\ has_type)

\* a variant that offers every detected keyword, applied or not
valid_options_all(opts, filters) == opts

\* [o for o in opts if o.upper() not in curr_filters_str]
valid_options(opts, filters) ==
  LET curr_filters_str == upper(concat(filters))
  IN select(opts, [o \in Range(opts) |-> ~contains(curr_filters_str, upper(o))])

check_next_step(s, msgs) ==
  LET current_df == frame(s)
      count == Len(current_df)
      filters == s.filters
      valid_series == valid_options(detect_options(df, current_df, ALL_SERIES_KEYWORDS), filters)
      valid_types == valid_options(detect_options(df, current_df, ALL_TYPE_KEYWORDS), filters)
  IN IF stop_condition(count, filters) THEN finalize_results(s, msgs)
     ELSE IF Len(valid_series) > 1
     THEN [state |-> [s EXCEPT !.step = "SERIES_SELECT", !.options = valid_series],
           messages |-> msgs]
     ELSE IF Len(valid_types) > 1
     THEN [state |-> [s EXCEPT !.step = "TYPE_SELECT", !.options = valid_types],
           messages |-> msgs]
     ELSE finalize_results(s, msgs)

\* start_search, given the frame search_topk returned and what the call of
\* the intent service comes to
start_search(s, msgs, query, raw_res, with_llm, reply) ==
  LET intent == IF with_llm THEN llm_parse_query(reply) ELSE <<>>
      filters == IF with_llm THEN intent_filters(intent) ELSE <<>>
      m == greedy_match(df, raw_res, strategies(filters))
      updated == [s EXCEPT !.active_query = query,
                           !.filters = m.used_filters,
                           !.results = <<m.final_df>>,
                           !.debug = [intent |-> intent, applied |-> m.used_filters]]
  IN check_next_step(updated, msgs)

\* a variant that narrows the results but leaves the filter list as it is
on_option_click_keep_filters(s, msgs, option) ==
  LET msgs1 == append_msg(msgs, "user", "text", <<>>)
      new_df == apply_filters_smart(df, frame(s), <<option>>)
      updated == [s EXCEPT !.results = <<new_df>>]
  IN check_next_step(updated, msgs1)

\* on_option_click; debug["applied"] is the list object state["filters"]
\* holds, so the append shows in both
on_option_click(s, msgs, option) ==
  LET msgs1 == append_msg(msgs, "user", "text", <<>>)
      filters == Append(s.filters, option)
      new_df == apply_filters_smart(df, frame(s), <<option>>)
      updated == [s EXCEPT !.filters = filters,
                           !.results = <<new_df>>,
                           !.debug = [s.debug EXCEPT !.applied = filters]]
  IN check_next_step(updated, msgs1)

----------------------------------------------------------------------------
(* The session's inputs                                                    *)

\* a new query is taken while the history holds fewer messages than this
MaxMessages == 3

\* the catalogue the session loads
SessionCorpus == Len(Corpora)

\* what the user types into st.chat_input
ChatQueries ==
  { <<>>,
    <<" ">>,
    <<"K">>,
    <<"K", "L">>,
    <<"j", "b">> }

\* the four example buttons of the welcome box
HeroQueries ==
  { <<"Zdong1", "Zfeng", "Ztian", "Zlong">>,
    <<"Zhong", "Zyan", "Zjie2", "Zshi", "Zbao", "Zxian3", "Zsi">>,
    <<"Zhao", "Zwo">>,
    <<"4", "H", "K", "1", " ", "E", "C", "U">> }

FailureKinds == {"no_key", "exception", "non_dict"}

\* what a call of the intent service can come to
SessionReplies ==
  { [kind |-> "no_key", data |-> <<>>],
    [kind |-> "exception", data |-> <<>>],
    [kind |-> "non_dict", data |-> <<>>],
    [kind |-> "dict",
     data |-> [brand |-> <<"n", "u", "l", "l">>, series |-> <<"K", "L">>,
               part |-> <<"E", "C", "U">>]],
    [kind |-> "dict",
     data |-> [brand |-> <<"K", "C">>, series |-> <<"K", "L">>, part |-> <<"x", "y">>]],
    [kind |-> "dict",
     data |-> [brand |-> <<"K">>, series |-> <<"K", "L">>, part |-> <<"x", "y">>]],
    [kind |-> "dict", data |-> [part |-> <<"E", "C", "U">>]] }

\* the answers of the fuzzy scorer for the session's corpus: the titles
\* score apart, the paths A and B alike, so that rows 1 and 2 tie
SessionOracles ==
  { [t |-> [x \in Titles(SessionCorpus) |->
              IF x = <<"K", "L", " ", "E", "C", "U">> THEN 90
              ELSE IF x = <<"K", "L", " ", "E", "C", "U", " ", "j", "b">> THEN 80
              ELSE IF x = <<"K", "C", " ", "E", "C", "U", " ", "j", "b">> THEN 70
              ELSE 60],
     p |-> [x \in Paths(SessionCorpus) |->
              IF x = <<"C">> THEN 10 ELSE IF x = <<"D">> THEN 20 ELSE 50]] }

\* raw_res = search_topk(df, query, k=150), for the queries and the scorer
\* answers of the session, each computed once
RawResults ==
  table([q \in ChatQueries \cup HeroQueries |->
           table([f \in SessionOracles |->
                    search_topk(SessionCorpus, q, 150, 300, 0, FALSE, NoReply, f)])])

Init ==
  /\ df = SessionCorpus
  /\ state = InitialState
  /\ messages = <<>>
  /\ use_llm = TRUE
  /\ llm = NoReply
  /\ fuzz = NoOracle
  /\ choices = 0
  /\ norm = NormIdle
  /\ engine = EngineIdle

\* append_msg("user", prompt); start_search(prompt); st.rerun()
Submit(prompt) ==
  \E f \in SessionOracles :
    \E raw_res \in RawResults[prompt][f] :
      \E reply \in (IF use_llm THEN SessionReplies ELSE {NoReply}) :
      \E next \in {start_search(state, append_msg(messages, "user", "text", <<>>),
                                 prompt, raw_res, use_llm, reply)} :
         /\ Len(messages) < MaxMessages
         /\ state' = next.state
         /\ messages' = next.messages
         /\ llm' = reply
         /\ fuzz' = f
         /\ choices' = 0
         /\ UNCHANGED <<norm, engine, df, use_llm>>

\* if prompt := st.chat_input(...)
ChatInput ==
  \E prompt \in ChatQueries :
    /\ prompt # <<>>
    /\ Submit(prompt)

\* the example buttons, shown while the history is empty
HeroButton ==
  /\ messages = <<>>
  /\ \E prompt \in HeroQueries : Submit(prompt)

\* a button of the options row: on_option_click(opt, display_label); st.rerun()
OptionClick ==
  /\ state.step \in {"SERIES_SELECT", "TYPE_SELECT"}
  /\ \E i \in 1..Len(state.options) :
       \E next \in {on_option_click(state, messages, state.options[i])} :
          /\ state' = next.state
          /\ messages' = next.messages
          /\ choices' = choices + 1
          /\ UNCHANGED <<norm, engine, df, fuzz, llm, use_llm>>

\* the sidebar's clear-history button
ClearHistory ==
  /\ messages' = <<>>
  /\ state' = InitialState
  /\ llm' = NoReply
  /\ fuzz' = NoOracle
  /\ choices' = 0
  /\ UNCHANGED <<norm, engine, df, use_llm>>

\* the sidebar's toggle
ToggleLLM ==
  /\ use_llm' = ~use_llm
  /\ UNCHANGED <<norm, engine, df, fuzz, llm, state, messages, choices>>

Next == ChatInput \/ HeroButton \/ OptionClick \/ ClearHistory \/ ToggleLLM

Spec == Init /\ [][Next]_vars

----------------------------------------------------------------------------
(* Properties of search_topk, over SpecSearch                              *)

\* the tokens of each query a call can make
EngineTokens ==
  table([q \in EngineQueries |-> query_tokens(normalize_query(q))])

\* the tokens of the call at hand
call_tokens == EngineTokens[engine.query]

\* the rows whose blob holds a token of the call
token_rows ==
  {i \in RowIds(df) :
     \E j \in 1..Len(call_tokens) : contains(blob_lower(df, i), call_tokens[j])}

\* C7: search returns the documents best score first, and two returned
\* documents of equal final score stand in the order of the corpus.
C7_StableRanking ==
  engine.pc = "done" =>
    \A m, n \in 1..Len(engine.result) :
      m < n =>
        \/ engine.result[m].score > engine.result[n].score
        \/ /\ engine.result[m].score = engine.result[n].score
           /\ engine.result[m].idx < engine.result[n].idx

\* best score first alone: what the sort by score does give
RankedByScore ==
  engine.pc = "done" =>
    \A m, n \in 1..Len(engine.result) :
      m < n => engine.result[m].score >= engine.result[n].score

\* C8: for a corpus with rows, k >= 1 and a query with a token, search
\* returns rows: those that hold a token, or rows of the whole corpus when
\* none does, and the min_score filter is dropped when no row passes it.
C8_RecallFallback ==
  (engine.pc = "done" /\ Corpora[df] # <<>> /\ call_tokens # <<>>) =>
    LET cand == IF token_rows = {} THEN RowIds(df) ELSE token_rows
        pool == Min(engine.candidate_pool, Cardinality(cand))
        res == engine.result
        passing == {n \in 1..Len(res) : res[n].score >= engine.min_score}
    IN /\ res # <<>>
       /\ \A n \in 1..Len(res) : res[n].idx \in cand
       /\ (engine.min_score = 0 \/ passing = {}) => Len(res) = Min(engine.k, pool)
       /\ passing # {} => passing = 1..Len(res)

\* no row holds the token, and no score reaches min_score: rows come back
C8_Witness ==
  /\ engine.pc = "done"
  /\ df = 2
  /\ engine.query = <<"x", "y">>
  /\ token_rows = {}
  /\ engine.min_score = 900000
  /\ engine.k = 2
  /\ Len(engine.result) = 2

----------------------------------------------------------------------------
(* Properties of the session, over Spec                                    *)

Selecting == {"SERIES_SELECT", "TYPE_SELECT"}

\* a query has been run and no option chosen since: the state is the one
\* start_search left
AfterQuery == choices = 0 /\ state.results # None

\* the frames search_topk can have returned for the query of the session
BroadResults == RawResults[state.active_query][fuzz]

\* the keywords of a list detected in the results and not a substring of
\* the concatenated, upper-cased filters
remaining(keywords) ==
  LET applied == upper(concat(state.filters))
      found == detect_options(df, frame(state), keywords)
  IN select(found, [kw \in Range(found) |-> ~contains(applied, upper(kw))])

\* C1: the options list is non-empty only while the step is SERIES_SELECT
\* or TYPE_SELECT; a finalized dialogue (IDLE) holds no options.
C1_OptionsOnlyWhileSelecting ==
  state.options # <<>> => state.step \in Selecting

\* C2: an empty or whitespace-only query submitted in step INIT leaves the
\* step INIT and emits no final result.
C2_EmptyQueryStaysInit ==
  [][(/\ state.step = "INIT"
      /\ Len(messages') > Len(messages)
      /\ strip(state'.active_query) = <<>>)
     => /\ state'.step = "INIT"
        /\ \A n \in 1..Len(messages') : messages'[n].type # "result_card"]_vars

C5_SmallSetFinalizes ==
  (state.results # None /\ Len(frame(state)) <= 5) =>
    /\ state.step = "IDLE"
    /\ messages # <<>>
    /\ messages[Len(messages)] =
         [role |-> "assistant", type |-> "result_card", shown |-> Len(frame(state))]

\* exactly 5 documents of two series, and no filter applied
C5_Witness ==
  /\ state.results # None
  /\ Len(frame(state)) = 5
  /\ state.filters = <<>>
  /\ Len(detect_options(df, frame(state), ALL_SERIES_KEYWORDS)) > 1
  /\ state.step = "IDLE"

NumKeywords == Len(ALL_SERIES_KEYWORDS) + Len(ALL_TYPE_KEYWORDS)

====
